---- MODULE Spec2Model ----
(***************************************************************************)
(* Model of the OpenBSD RunCom service controller of AdGuardHome           *)
(* (internal/home/service_openbsd.go).                                     *)
(*                                                                         *)
(* Go strings are modelled as sequences of one-character strings, so that  *)
(* trimming, splitting, searching and writing at a byte offset are         *)
(* computed on the characters, as the code computes them.  Errors are      *)
(* sequences of layers: the empty sequence is nil, and every annotation    *)
(* prepends one layer to the error it wraps.                               *)
(***************************************************************************)
EXTENDS Integers, Sequences, FiniteSets, TLC

(***************************************************************************)
(* Bounds of the model.                                                    *)
(***************************************************************************)
\* The largest number of lines of an initial startup-configuration file.
MaxLines == 2
\* The largest number of calls, in one behaviour, that may write the
\* startup-configuration file.
MaxCalls == 2
\* The largest number of calls of Run in one behaviour.
MaxRuns == 2
\* The largest number of Arguments of a service and the largest length of one.
MaxArgs == 2
MaxArgLen == 2

(***************************************************************************)
(* Characters and strings.                                                 *)
(***************************************************************************)
NL == "\n"
SP == " "

\* const pref = "pkg_scripts="
pref == <<"p", "k", "g", "_", "s", "c", "r", "i", "p", "t", "s", "=">>

\* The service names services are configured with (service.Config.Name).
Names == {<<"a">>, <<"b">>, <<"a", "b">>}

\* The names of the services whose operations are called.
Services == {<<"a">>, <<"a", "b">>}

\* unicode.IsSpace, as strings.TrimSpace uses it, on the characters of the model.
IsSpace(c) == c \in {" ", "\t", "\n", "\r"}

\* s[i..j] with Go's half-open, zero-based indices: s[i:j].
Slice(s, i, j) == SubSeq(s, i + 1, j)

\* The index of the first character of s from the i-th one that is no space,
\* and of the last one up to the j-th one (Len(s) + 1 and 0 when there is none).
RECURSIVE FirstNonSpace(_, _)
FirstNonSpace(s, i) ==
    IF i <= Len(s) /\ IsSpace(s[i]) THEN FirstNonSpace(s, i + 1) ELSE i

RECURSIVE LastNonSpace(_, _)
LastNonSpace(s, j) ==
    IF j >= 1 /\ IsSpace(s[j]) THEN LastNonSpace(s, j - 1) ELSE j

\* strings.TrimSpace
TrimSpace(s) == SubSeq(s, FirstNonSpace(s, 1), LastNonSpace(s, Len(s)))

\* strings.HasPrefix
HasPrefix(s, p) == Len(s) >= Len(p) /\ SubSeq(s, 1, Len(p)) = p

\* strings.Index: the zero-based index of the first instance of sub in s, or -1.
RECURSIVE IndexFrom(_, _, _)
IndexFrom(s, sub, i) ==
    IF i + Len(sub) > Len(s) THEN -1
    ELSE IF SubSeq(s, i + 1, i + Len(sub)) = sub THEN i
    ELSE IndexFrom(s, sub, i + 1)

Index(s, sub) == IndexFrom(s, sub, 0)

\* strings.Split(s, sep) for a one-character separator: always at least one
\* element, empty elements kept.  The element being read starts at the
\* from-th character and i is the character looked at.
RECURSIVE SplitFrom(_, _, _, _, _)
SplitFrom(s, sep, from, i, acc) ==
    IF i > Len(s) THEN Append(acc, SubSeq(s, from, Len(s)))
    ELSE IF s[i] = sep
         THEN SplitFrom(s, sep, i + 1, i + 1, Append(acc, SubSeq(s, from, i - 1)))
         ELSE SplitFrom(s, sep, from, i + 1, acc)

Split(s, sep) == SplitFrom(s, sep, 1, 1, <<>>)

\* stringutil.InSlice
InSlice(strs, str) == \E i \in 1..Len(strs) : strs[i] = str

\* The number of elements of strs equal to str.
Count(strs, str) == Cardinality({i \in 1..Len(strs) : strs[i] = str})

\* bufio.ScanLines over the whole input: the lines without their end-of-line
\* marker (a trailing carriage return dropped too); a last line with no
\* newline is returned when it is not empty.
DropCR(l) ==
    IF l # <<>> /\ l[Len(l)] = "\r" THEN SubSeq(l, 1, Len(l) - 1) ELSE l

RECURSIVE ScanLinesFrom(_, _, _, _)
ScanLinesFrom(data, from, i, acc) ==
    IF i > Len(data)
    THEN (IF from > Len(data) THEN acc
          ELSE Append(acc, DropCR(SubSeq(data, from, Len(data)))))
    ELSE IF data[i] = NL
         THEN ScanLinesFrom(data, i + 1, i + 1,
                            Append(acc, DropCR(SubSeq(data, from, i - 1))))
         ELSE ScanLinesFrom(data, from, i + 1, acc)

ScanLines(data) == ScanLinesFrom(data, 1, 1, <<>>)

\* The concatenation of the strings of strs, sep between them.
RECURSIVE Join(_, _)
Join(strs, sep) ==
    IF strs = <<>> THEN <<>>
    ELSE IF Len(strs) = 1 THEN strs[1]
    ELSE strs[1] \o sep \o Join(Tail(strs), sep)

(***************************************************************************)
(* Errors.                                                                 *)
(***************************************************************************)
nil == <<>>

\* const sysVersion = "openbsd-runcom"
sysVersion == "openbsd-runcom"

\* One layer of an error: its text and, for the layer annotate adds, the
\* variant and the service name the text is formatted with.
Layer(msg, sys, name) == [msg |-> msg, sys |-> sys, name |-> name]

\* An error with no error wrapped in it.
NewError(msg) == <<Layer(msg, "", <<>>)>>

\* errNoUserServiceRunCom
errNoUserServiceRunCom == NewError("user services are not supported on openbsd-runcom")

\* service.ErrNotInstalled
ErrNotInstalled == NewError("the service is not installed")

\* errors.Annotate(err, "<msg>: %w"): nil stays nil, any other error is
\* wrapped in one layer.
Annotate(err, msg) == IF err = nil THEN nil ELSE NewError(msg) \o err

\* annotate wraps errors.Annotate applying the common format
\* "<action> <sysVersion> <name> service: %w".
annotate(action, name, err) ==
    IF err = nil THEN nil ELSE <<Layer(action, sysVersion, name)>> \o err

\* errors.WithDeferred: the returned error, or the deferred one when there
\* was none.
WithDeferred(err, deferred) == IF err = nil THEN deferred ELSE err \o deferred

(***************************************************************************)
(* The startup-configuration file /etc/rc.conf.local.                      *)
(***************************************************************************)
\* bufio's startBufSize: the Scanner of modifyRCConfLocal reads the file in
\* chunks of this size.
startBufSize == 4096

\* The offset of the file after the scanning loop.  The Scanner reads ahead:
\* its first read takes min(len(file), startBufSize) bytes, whichever line
\* the loop stops at.  Files of the model are shorter than startBufSize, so
\* one read takes the whole file (for a longer file whose loop stops in the
\* first chunk the offset is startBufSize).
ScanOffset(data) == IF Len(data) <= startBufSize THEN Len(data) ELSE startBufSize

\* The scanning loop of modifyRCConfLocal over the lines from the i-th one:
\* the values of prefIdx and ln when the loop ends.
RECURSIVE ScanLoopAnywhere(_, _, _, _)
ScanLoopAnywhere(lines, i, prefIdx, ln) ==
    IF i > Len(lines) THEN [prefIdx |-> prefIdx, ln |-> ln]
    ELSE LET t == TrimSpace(lines[i])
         IN  IF t = <<>> THEN ScanLoopAnywhere(lines, i + 1, prefIdx, t)
             ELSE IF Index(t, pref) >= 0 THEN [prefIdx |-> 0, ln |-> t]
             ELSE ScanLoopAnywhere(lines, i + 1, Index(t, pref), t)

RECURSIVE ScanLoop(_, _, _, _)
ScanLoop(lines, i, prefIdx, ln) ==
    IF i > Len(lines) THEN [prefIdx |-> prefIdx, ln |-> ln]
    ELSE LET t == TrimSpace(lines[i])
         IN  IF t = <<>> THEN ScanLoop(lines, i + 1, prefIdx, t)
             ELSE IF Index(t, pref) = 0 THEN [prefIdx |-> 0, ln |-> t]
             ELSE ScanLoop(lines, i + 1, Index(t, pref), t)

\* file.WriteString(s) at offset off of a file opened without O_APPEND: the
\* bytes from off are overwritten and the file grows as needed.
WriteAt(data, off, s) ==
    SubSeq(data, 1, off) \o s \o SubSeq(data, off + Len(s) + 1, Len(data))

\* The faults of the calls on the startup-configuration file.
IOFaults == {"none", "open", "stat", "isdir", "scan", "seek", "write", "close"}

IOError(io) == NewError(io)

\* The value prefIdx has when the scanning loop begins.
prefIdxInitOff == 0 - 1
prefIdxInit == -2

\* What modifyRCConfLocal writes before the name on a recognized line that
\* lists svcs: a space, unless the list is empty.
sepAlways(svcs) == <<SP>>
sepBefore(svcs) == IF Len(svcs) > 0 /\ svcs[1] # <<>> THEN <<SP>> ELSE <<>>

\* modifyRCConfLocal: the error, the file afterwards and whether WriteString
\* was called.
modifyRCConfLocal(data, name, io) ==
    LET scn  == ScanLoop(ScanLines(data), 1, prefIdxInit, <<>>)
        off  == ScanOffset(data)
        svcs == Split(Slice(scn.ln, Len(pref), Len(scn.ln)), SP)
        sep  == sepBefore(svcs)
        done(e, d, w) == [err |-> e, data |-> d, wrote |-> w]
        write(o, b) ==
            IF io = "write" THEN done(IOError(io), data, TRUE)
            ELSE done(nil, WriteAt(data, o, b \o name \o <<NL>>), TRUE)
    IN  IF io = "scan" THEN done(IOError(io), data, FALSE)
        ELSE IF scn.prefIdx = -2 THEN write(off, pref)
        ELSE IF scn.prefIdx = 0 THEN
            IF InSlice(svcs, name) THEN done(nil, data, FALSE)
            ELSE IF io = "seek" \/ off - 1 < 0 THEN done(IOError("seek"), data, FALSE)
            ELSE write(off - 1, sep)
        ELSE write(off, <<NL>> \o pref)

\* configureSysStartup: the file is opened, or created empty, then checked
\* and handed to modifyRCConfLocal; the error of Close is reported when
\* nothing failed before.
configureSysStartup(exists, data, name, io) ==
    LET cur == IF exists THEN data ELSE <<>>
        res(e, x, d, w) == [err |-> e, exists |-> x, data |-> d, wrote |-> w]
        m   == modifyRCConfLocal(cur, name, io)
    IN  IF io = "open" THEN res(IOError(io), exists, data, FALSE)
        ELSE IF io = "stat" THEN res(IOError(io), TRUE, cur, FALSE)
        ELSE IF io = "isdir" THEN res(NewError("expected a file but it's a directory"), TRUE, cur, FALSE)
        ELSE res(WithDeferred(m.err, IF io = "close" THEN IOError(io) ELSE nil),
                 TRUE, m.data, m.wrote)

(***************************************************************************)
(* Options of the service configuration.                                   *)
(***************************************************************************)
\* What the option bag may hold under UserService: nothing, a boolean, or a
\* value of another type.
UserServiceOpts == {"absent", "true", "false", "string"}

\* What the option bag may hold under RunComScript: nothing (the built-in
\* runComScript is used), a template that renders, a template that does not
\* parse, or a template that parses and fails when executed.
TemplateOpts == {"absent", "custom", "malformed", "failing"}

\* What the option bag may hold under RunWait: nothing, a func(), or a value
\* of another type.
RunWaitOpts == {"absent", "func", "string"}

\* optionUserServiceDefault
optionUserServiceDefault == FALSE

\* getBool: the value when it is there and a boolean, defaultValue otherwise.
getBoolDefault(v, defaultValue) == defaultValue
getBool(v, defaultValue) ==
    IF v = "true" THEN TRUE ELSE IF v = "false" THEN FALSE ELSE defaultValue

\* getFuncSingle: the value when it is there and a func(), defaultValue
\* otherwise.
getFuncSingle(v, defaultValue) == IF v = "func" THEN "RunWait" ELSE defaultValue

\* scriptPath: user services are rejected; the script of any other service
\* is the file of its name in /etc/rc.d.
scriptPath(name, us) ==
    IF getBool(us, optionUserServiceDefault)
    THEN [cp |-> <<>>, err |-> errNoUserServiceRunCom]
    ELSE [cp |-> <<"/etc/rc.d">> \o name, err |-> nil]

(***************************************************************************)
(* The script file /etc/rc.d/<name>.                                       *)
(***************************************************************************)
\* The permission bits os.Create asks for (0o666) and those writeScript sets
\* with os.Chmod (0o755).
permCreate == 438
permScript == 493

NoScript == [exists |-> FALSE, perm |-> 0, body |-> "none"]

\* The faults of the calls writeScript makes.
ScriptFaults == {"none", "scriptstat", "execpath", "create", "execute", "chmod"}

\* The check of writeScript that the script is not there yet: os.Stat has to
\* fail with os.ErrNotExist, so that any other outcome of it, a script that is
\* there or another error, counts as a script that exists.
alreadyExistsNever(sc, fault) == FALSE
alreadyExists(sc, fault) == sc.exists \/ fault = "scriptstat"

\* writeScript on the script file sc of the service: what it returns, or that
\* it panicked, and the script file afterwards.
writeScript(sc, name, us, tmpl, fault) ==
    LET ret(e, f) == [panic |-> FALSE, err |-> e, script |-> f]
        created(b) == [exists |-> TRUE, perm |-> permCreate, body |-> b]
    IN  IF scriptPath(name, us).err # nil THEN ret(scriptPath(name, us).err, sc)
        ELSE IF alreadyExists(sc, fault)
            THEN ret(NewError("script already exists"), sc)
        ELSE IF fault = "execpath" THEN ret(NewError(fault), sc)
        ELSE IF tmpl = "malformed" THEN [panic |-> TRUE, err |-> nil, script |-> sc]
        ELSE IF fault = "create"
            THEN ret(Annotate(NewError(fault), "creating rc.d script file"), sc)
        ELSE IF tmpl = "failing" \/ fault = "execute"
            THEN ret(NewError("execute"), created("partial"))
        ELSE IF fault = "chmod"
            THEN ret(Annotate(NewError(fault), "changing rc.d script file permissions"),
                     created("full"))
        ELSE ret(nil, [exists |-> TRUE, perm |-> permScript, body |-> "full"])

\* Install: writeScript, then configureSysStartup when it returned no error;
\* the error returned is annotated.
\* Beside what it returns: regErr, the error configureSysStartup returned.
InstallWithRollback(sc, exists, data, name, us, tmpl, fault) ==
    LET w == writeScript(sc, name, us, tmpl, fault)
        c == configureSysStartup(exists, data, name,
                                 IF fault \in IOFaults THEN fault ELSE "none")
    IN  IF w.panic \/ w.err # nil
        THEN [panic |-> w.panic, err |-> annotate("installing", name, w.err),
              script |-> w.script, exists |-> exists, data |-> data, wrote |-> FALSE,
              regErr |-> nil]
        ELSE [panic |-> FALSE, err |-> annotate("installing", name, c.err),
              script |-> IF c.err # nil THEN sc ELSE w.script,
              exists |-> c.exists, data |-> c.data,
              wrote |-> c.wrote, regErr |-> c.err]

Install(sc, exists, data, name, us, tmpl, fault) ==
    LET w == writeScript(sc, name, us, tmpl, fault)
        c == configureSysStartup(exists, data, name,
                                 IF fault \in IOFaults THEN fault ELSE "none")
    IN  IF w.panic \/ w.err # nil
        THEN [panic |-> w.panic, err |-> annotate("installing", name, w.err),
              script |-> w.script, exists |-> exists, data |-> data, wrote |-> FALSE,
              regErr |-> nil]
        ELSE [panic |-> FALSE, err |-> annotate("installing", name, c.err),
              script |-> w.script, exists |-> c.exists, data |-> c.data,
              wrote |-> c.wrote, regErr |-> c.err]

\* Uninstall: the script file is removed.
UninstallKeepingScript(sc, name, us, fault) ==
    IF scriptPath(name, us).err # nil
    THEN [err |-> annotate("uninstalling", name, scriptPath(name, us).err), script |-> sc]
    ELSE IF ~sc.exists \/ fault = "remove"
    THEN [err |-> annotate("uninstalling", name,
                           Annotate(NewError("remove"), "removing rc.d script")),
          script |-> sc]
    ELSE [err |-> nil, script |-> sc]

Uninstall(sc, name, us, fault) ==
    IF scriptPath(name, us).err # nil
    THEN [err |-> annotate("uninstalling", name, scriptPath(name, us).err), script |-> sc]
    ELSE IF ~sc.exists \/ fault = "remove"
    THEN [err |-> annotate("uninstalling", name,
                           Annotate(NewError("remove"), "removing rc.d script")),
          script |-> sc]
    ELSE [err |-> nil, script |-> NoScript]

(***************************************************************************)
(* Commands sent to the script.                                            *)
(***************************************************************************)
\* The texts the name of the service is followed by in the outputs of check
\* that Status knows.
OKNoNewline == <<"(", "o", "k", ")">>
OK == <<"(", "o", "k", ")", NL>>
FAILED == <<"(", "f", "a", "i", "l", "e", "d", ")", NL>>

\* The outputs of a script.
Outputs ==
    {<<>>, OK}
    \cup {n \o OK : n \in Services} \cup {n \o FAILED : n \in Services}
    \cup {n \o SubSeq(OK, 1, Len(OK) - 1) : n \in Services}

\* What the run of a command can come to: it could not be spawned, or it ran,
\* exited with a code and printed one of the outputs outs.
Outcomes(outs) ==
    {[spawned |-> FALSE, code |-> 1, out |-> <<>>]}
    \cup {[spawned |-> TRUE, code |-> c, out |-> o] : c \in {0, 1}, o \in outs}

\* aghos.RunCommand: the exit code, the output and an error when the command
\* could not be run.  A script that is not there or not executable cannot be
\* spawned.
RunCommand(sc, oc) ==
    IF oc.spawned /\ sc.exists /\ sc.perm = permScript
    THEN [code |-> oc.code, out |-> oc.out, err |-> nil]
    ELSE [code |-> 1, out |-> <<>>, err |-> NewError("command failed")]

\* runCom: the output and the error of the script called with cmd, and the
\* commands spawned.
runCom(sc, name, us, cmd, oc) ==
    IF scriptPath(name, us).err # nil
    THEN [out |-> <<>>, err |-> scriptPath(name, us).err, cmds |-> <<>>]
    ELSE [out |-> RunCommand(sc, oc).out, err |-> RunCommand(sc, oc).err,
          cmds |-> <<cmd>>]

\* Status
Status(sc, name, us, oc) ==
    LET r == runCom(sc, name, us, "check", oc)
        ret(st, e) == [status |-> st, err |-> annotate("getting status of", name, e),
                       out |-> r.out, cmds |-> r.cmds, cmdErr |-> r.err]
    IN  IF r.err # nil THEN ret("unknown", r.err)
        ELSE IF r.out = name \o OK THEN ret("running", nil)
        ELSE IF r.out = name \o FAILED THEN ret("stopped", nil)
        ELSE ret("unknown", ErrNotInstalled)

\* Start
Start(sc, name, us, oc) ==
    [err |-> annotate("starting", name, runCom(sc, name, us, "start", oc).err),
     cmds |-> runCom(sc, name, us, "start", oc).cmds,
     cmdErr |-> runCom(sc, name, us, "start", oc).err]

\* Stop
Stop(sc, name, us, oc) ==
    [err |-> annotate("stopping", name, runCom(sc, name, us, "stop", oc).err),
     cmds |-> runCom(sc, name, us, "stop", oc).cmds,
     cmdErr |-> runCom(sc, name, us, "stop", oc).err]

\* Restart: Stop, then Start when Stop returned no error.  Beside what it
\* returns: the commands spawned, what Stop returned and the error of the
\* command Stop sent.
RestartBestEffort(sc, name, us, ocStop, ocStart) ==
    LET p == Stop(sc, name, us, ocStop)
        q == Start(sc, name, us, ocStart)
    IN  [err |-> IF p.err # nil THEN p.err ELSE q.err, cmds |-> p.cmds \o q.cmds,
         stopErr |-> p.err, cmdErr |-> p.cmdErr]

Restart(sc, name, us, ocStop, ocStart) ==
    LET p == Stop(sc, name, us, ocStop)
        q == Start(sc, name, us, ocStart)
    IN  IF p.err # nil
        THEN [err |-> p.err, cmds |-> p.cmds, stopErr |-> p.err, cmdErr |-> p.cmdErr]
        ELSE [err |-> q.err, cmds |-> p.cmds \o q.cmds, stopErr |-> p.err,
              cmdErr |-> p.cmdErr]

(***************************************************************************)
(* The state.                                                              *)
(***************************************************************************)
VARIABLES
    userService,  \* the UserService option of the configuration of the services
    rcExists,     \* whether /etc/rc.conf.local exists
    rcConf,       \* its content
    script,       \* the script file of every service name
    call,         \* the last call of an operation and what it returned
    before,       \* the files when the last call began
    initList,     \* the names on the recognized line of the initial file
    added,        \* the names configureSysStartup, called on its own, added since,
                  \* in the order of their first addition
    faulted,      \* whether a call of configureSysStartup on its own returned an error
    installed,    \* the names installed with no error and no Uninstall since
    stranded,     \* the names whose script an Install wrote before its
                  \* configureSysStartup failed, with no Uninstall that
                  \* removed it since
    ncalls,       \* the number of calls that may write rcConf
    arguments,    \* the Arguments of the configuration of the service
    daemonFlags,  \* the text the script template renders after daemon_flags=
    pc,           \* where Run is
    waitOpt,      \* the RunWait option of the service
    waitFn,       \* the wait function Run chose
    startCalls,   \* the calls of the start callback by the current Run
    stopCalls,    \* the calls of the stop callback by the current Run
    waitEntered,  \* whether the wait function was entered
    waitReturned, \* whether the wait function returned
    notified,     \* whether signal.Notify registered the channel of runWait
    sigChan,      \* the signals buffered in the channel of runWait
    startErr,     \* what the start callback returned
    stopErr,      \* what the stop callback returned
    runErr,       \* what Run returned
    nruns         \* the number of calls of Run

argVars == <<arguments, daemonFlags>>

fileVars == <<userService, rcExists, rcConf, script, call, before, initList, added, faulted, installed,
              stranded, ncalls, argVars>>

runVars == <<pc, waitOpt, waitFn, startCalls, stopCalls, waitEntered, waitReturned,
             notified, sigChan, startErr, stopErr, runErr, nruns>>

vars == <<fileVars, runVars>>

\* The recognized line of a file: the first line that, trimmed, starts with
\* pref; the empty string when there is none.
RECURSIVE FirstRecognized(_, _)
FirstRecognized(lines, i) ==
    IF i > Len(lines) THEN <<>>
    ELSE IF HasPrefix(TrimSpace(lines[i]), pref) THEN TrimSpace(lines[i])
    ELSE FirstRecognized(lines, i + 1)

RecognizedLine(data) == FirstRecognized(ScanLines(data), 1)

HasRecognized(data) == RecognizedLine(data) # <<>>

NotEmpty(str) == str # <<>>

\* The names the recognized line lists, in its order.
RecognizedNames(data) ==
    IF HasRecognized(data)
    THEN SelectSeq(Split(SubSeq(RecognizedLine(data), Len(pref) + 1,
                                Len(RecognizedLine(data))), SP), NotEmpty)
    ELSE <<>>

(***************************************************************************)
(* Initial states.                                                         *)
(***************************************************************************)
\* The lists of names of the recognized lines of the initial files.
InitLists == {<<>>, << <<"a">> >>, << <<"b">>, <<"a", "b">> >>}

\* The lines of the initial files: recognized lines (one of them indented), a
\* line of another setting, a commented-out recognized line and a blank
\* line.
InitLines ==
    {(IF Len(l) > 1 THEN <<SP>> ELSE <<>>) \o pref \o Join(l, <<SP>>) : l \in InitLists}
    \cup {<<"x">>, <<"#">> \o pref \o <<"a">>, <<>>}

\* The initial contents of the file: up to k lines, with or without a newline
\* at the end.
InitFiles(k) ==
    {Join(ls, <<NL>>) \o e : ls \in UNION {[1..m -> InitLines] : m \in 0..k},
                             e \in {<<>>, <<NL>>}}

NoCall ==
    [op |-> "none", name |-> <<>>, err |-> nil, panic |-> FALSE,
     wrote |-> FALSE, status |-> "none", out |-> <<>>, cmds |-> <<>>,
     cmdErr |-> nil, stopErr |-> nil, code |-> 0]

InitRun ==
    /\ pc = "idle"
    /\ waitOpt \in RunWaitOpts
    /\ waitFn = "none"
    /\ startCalls = 0
    /\ stopCalls = 0
    /\ waitEntered = FALSE
    /\ waitReturned = FALSE
    /\ notified = FALSE
    /\ sigChan = 0
    /\ startErr = nil
    /\ stopErr = nil
    /\ runErr = nil
    /\ nruns = 0

InitFile(files, opts) ==
    /\ userService \in opts
    /\ \/ rcExists = FALSE /\ rcConf = <<>>
       \/ rcExists = TRUE /\ rcConf \in files
    /\ script = [n \in Services |-> NoScript]
    /\ call = NoCall
    /\ before = [exists |-> rcExists, data |-> rcConf, script |-> script,
                 installed |-> {}, stranded |-> {}]
    /\ initList = RecognizedNames(rcConf)
    /\ added = <<>>
    /\ faulted = FALSE
    /\ installed = {}
    /\ stranded = {}
    /\ ncalls = 0

(***************************************************************************)
(* The operations on the files.                                            *)
(***************************************************************************)
\* The files as they are.
Files ==
    [exists |-> rcExists, data |-> rcConf, script |-> script, installed |-> installed,
     stranded |-> stranded]

\* added once name was added with no error, when it is a new name.
NewAdded(name, err) ==
    IF err = nil /\ ~InSlice(initList, name) /\ ~InSlice(added, name)
    THEN Append(added, name)
    ELSE added

\* A call of configureSysStartup for the service of name n.  The caller
\* stops at the first call that returns an error.
DoConfigureSysStartup(n, io) ==
    /\ ncalls < MaxCalls
    /\ ~faulted
    /\ \E r \in {configureSysStartup(rcExists, rcConf, n, io)} :
        /\ rcExists' = r.exists
        /\ rcConf' = r.data
        /\ before' = Files
        /\ call' = [NoCall EXCEPT !.op = "configureSysStartup", !.name = n,
                                  !.err = r.err, !.wrote = r.wrote]
        /\ added' = NewAdded(n, r.err)
        /\ faulted' = (faulted \/ r.err # nil)
        /\ ncalls' = ncalls + 1
        /\ UNCHANGED <<userService, script, initList, installed, stranded, argVars, runVars>>

\* A call of Install for the service of name n.
DoInstall(n, tmpl, fault) ==
    /\ ncalls < MaxCalls
    /\ \E r \in {Install(script[n], rcExists, rcConf, n, userService, tmpl, fault)} :
        /\ script' = [script EXCEPT ![n] = r.script]
        /\ rcExists' = r.exists
        /\ rcConf' = r.data
        /\ before' = Files
        /\ call' = [NoCall EXCEPT !.op = "Install", !.name = n,
                                  !.err = r.err, !.panic = r.panic,
                                  !.wrote = r.wrote]
        /\ installed' = IF r.err = nil /\ ~r.panic THEN installed \cup {n} ELSE installed
        /\ stranded' = IF r.regErr # nil THEN stranded \cup {n} ELSE stranded
        /\ ncalls' = ncalls + 1
        /\ UNCHANGED <<userService, initList, added, faulted, argVars, runVars>>

\* A call of Uninstall for the service of name n.
DoUninstall(n, fault) ==
    \E r \in {Uninstall(script[n], n, userService, fault)} :
        /\ script' = [script EXCEPT ![n] = r.script]
        /\ before' = Files
        /\ call' = [NoCall EXCEPT !.op = "Uninstall", !.name = n,
                                  !.err = r.err]
        /\ installed' = installed \ {n}
        /\ stranded' = IF r.err = nil THEN stranded \ {n} ELSE stranded
        /\ UNCHANGED <<userService, rcExists, rcConf, initList, added, faulted, ncalls, argVars, runVars>>

\* A call of Start for the service of name n.
DoStart(n, oc) ==
    \E r \in {Start(script[n], n, userService, oc)} :
        /\ before' = Files
        /\ call' = [NoCall EXCEPT !.op = "Start", !.name = n,
                                  !.err = r.err, !.cmds = r.cmds,
                                  !.cmdErr = r.cmdErr,
                                  !.code = RunCommand(script[n], oc).code]
        /\ UNCHANGED <<userService, rcExists, rcConf, script, initList, added, faulted,
                       installed, stranded, ncalls, argVars, runVars>>

\* A call of Stop for the service of name n.
DoStop(n, oc) ==
    \E r \in {Stop(script[n], n, userService, oc)} :
        /\ before' = Files
        /\ call' = [NoCall EXCEPT !.op = "Stop", !.name = n,
                                  !.err = r.err, !.cmds = r.cmds,
                                  !.cmdErr = r.cmdErr,
                                  !.code = RunCommand(script[n], oc).code]
        /\ UNCHANGED <<userService, rcExists, rcConf, script, initList, added, faulted,
                       installed, stranded, ncalls, argVars, runVars>>

\* A call of Restart for the service of name n.
DoRestart(n, ocStop, ocStart) ==
    \E r \in {Restart(script[n], n, userService, ocStop, ocStart)} :
        /\ before' = Files
        /\ call' = [NoCall EXCEPT !.op = "Restart", !.name = n,
                                  !.err = r.err, !.cmds = r.cmds,
                                  !.cmdErr = r.cmdErr, !.stopErr = r.stopErr]
        /\ UNCHANGED <<userService, rcExists, rcConf, script, initList, added, faulted,
                       installed, stranded, ncalls, argVars, runVars>>

\* A call of Status for the service of name n.
DoStatus(n, oc) ==
    \E r \in {Status(script[n], n, userService, oc)} :
        /\ before' = Files
        /\ call' = [NoCall EXCEPT !.op = "Status", !.name = n,
                                  !.err = r.err, !.cmds = r.cmds,
                                  !.cmdErr = r.cmdErr, !.status = r.status,
                                  !.out = r.out]
        /\ UNCHANGED <<userService, rcExists, rcConf, script, initList, added, faulted,
                       installed, stranded, ncalls, argVars, runVars>>

\* The run state of a service that is not running.
RunIdle ==
    /\ InitRun
    /\ waitOpt = "absent"

\* A service with no Arguments, whose script is not looked into.
NoArguments ==
    /\ arguments = <<>>
    /\ daemonFlags = <<>>

(***************************************************************************)
(* SpecStartup: calls of configureSysStartup, one after the other, on any  *)
(* initial file.                                                           *)
(***************************************************************************)
InitStartup == InitFile(InitFiles(MaxLines), {"absent"}) /\ RunIdle /\ NoArguments

NextStartup == \E n \in Names, io \in IOFaults : DoConfigureSysStartup(n, io)

SpecStartup == InitStartup /\ [][NextStartup]_vars

(***************************************************************************)
(* SpecService: calls of the operations of the service, one after the      *)
(* other, for services of any name and options.                            *)
(***************************************************************************)
\* The initial contents of the file the operations of the service start from.
ServiceInitFiles ==
    {<<>>,
     pref \o <<"a", NL>>,
     pref \o <<"b", NL, "x", NL>>,
     <<"x", NL>>}

\* A call of Install meets at most one fault, and none when the template of
\* the RunComScript option is not one that renders.
InstallInputs ==
    {[tmpl |-> t, fault |-> "none"] : t \in TemplateOpts}
    \cup {[tmpl |-> "absent", fault |-> f] : f \in ScriptFaults \cup IOFaults}

InitService == InitFile(ServiceInitFiles, UserServiceOpts) /\ RunIdle /\ NoArguments

NextService ==
    \/ \E n \in Services, i \in InstallInputs : DoInstall(n, i.tmpl, i.fault)
    \/ \E n \in Services, fault \in {"none", "remove"} : DoUninstall(n, fault)
    \/ \E n \in Services, oc \in Outcomes({<<>>}) : DoStart(n, oc)
    \/ \E n \in Services, oc \in Outcomes({<<>>}) : DoStop(n, oc)
    \/ \E n \in Services, ocStop \in Outcomes({<<>>}), ocStart \in Outcomes({<<>>}) :
          DoRestart(n, ocStop, ocStart)
    \/ \E n \in Services, oc \in Outcomes(Outputs) : DoStatus(n, oc)

SpecService == InitService /\ [][NextService]_vars

(***************************************************************************)
(* Run.  It blocks in the wait function, so it is modelled step by step,    *)
(* with the signals the process is sent in between.                        *)
(***************************************************************************)
\* The capacity of the channel runWait makes.
sigChanCap == 3

\* What the start and the stop callbacks of the service may return.
StartResults == {nil, NewError("start failed")}
StopResults == {nil, NewError("stop failed")}

\* Run is called: it calls the start callback and returns its error if there
\* is one.
RunStartIgnoringError(e) ==
    /\ pc \in {"idle", "returned"}
    /\ nruns < MaxRuns
    /\ nruns' = nruns + 1
    /\ startCalls' = 1
    /\ startErr' = e
    /\ stopCalls' = 0
    /\ stopErr' = nil
    /\ waitFn' = "none"
    /\ waitEntered' = FALSE
    /\ waitReturned' = FALSE
    /\ pc' = "started"
    /\ runErr' = nil
    /\ UNCHANGED <<fileVars, waitOpt, notified, sigChan>>

RunStart(e) ==
    /\ pc \in {"idle", "returned"}
    /\ nruns < MaxRuns
    /\ nruns' = nruns + 1
    /\ startCalls' = 1
    /\ startErr' = e
    /\ stopCalls' = 0
    /\ stopErr' = nil
    /\ waitFn' = "none"
    /\ waitEntered' = FALSE
    /\ waitReturned' = FALSE
    /\ IF e # nil
       THEN pc' = "returned" /\ runErr' = e
       ELSE pc' = "started" /\ runErr' = nil
    /\ UNCHANGED <<fileVars, waitOpt, notified, sigChan>>

\* Run enters the wait function: the one of the RunWait option, or runWait,
\* which makes a channel and registers it for the signals.
RunWithoutWait ==
    /\ pc = "started"
    /\ pc' = "waited"
    /\ waitFn' = getFuncSingle(waitOpt, "runWait")
    /\ UNCHANGED <<fileVars, waitOpt, startCalls, stopCalls, waitEntered, waitReturned,
                   notified, sigChan, startErr, stopErr, runErr, nruns>>

RunEnterWait ==
    /\ pc = "started"
    /\ pc' = "waiting"
    /\ waitFn' = getFuncSingle(waitOpt, "runWait")
    /\ waitEntered' = TRUE
    /\ IF waitFn' = "runWait"
       THEN notified' = TRUE /\ sigChan' = 0
       ELSE UNCHANGED <<notified, sigChan>>
    /\ UNCHANGED <<fileVars, waitOpt, startCalls, stopCalls, waitReturned,
                   startErr, stopErr, runErr, nruns>>

\* The wait function returns: runWait when it receives a signal from its
\* channel, the function of the option when it chooses to.
RunWaitReturnWithoutSignal ==
    /\ pc = "waiting"
    /\ pc' = "waited"
    /\ waitReturned' = TRUE
    /\ sigChan' = IF waitFn = "runWait" /\ sigChan > 0 THEN sigChan - 1 ELSE sigChan
    /\ UNCHANGED <<fileVars, waitOpt, waitFn, startCalls, stopCalls, waitEntered,
                   notified, startErr, stopErr, runErr, nruns>>

RunWaitReturn ==
    /\ pc = "waiting"
    /\ waitFn = "runWait" => sigChan > 0
    /\ pc' = "waited"
    /\ waitReturned' = TRUE
    /\ sigChan' = IF waitFn = "runWait" THEN sigChan - 1 ELSE sigChan
    /\ UNCHANGED <<fileVars, waitOpt, waitFn, startCalls, stopCalls, waitEntered,
                   notified, startErr, stopErr, runErr, nruns>>

\* Run calls the stop callback and returns what it returns.
RunStop(e) ==
    /\ pc = "waited"
    /\ pc' = "returned"
    /\ stopCalls' = stopCalls + 1
    /\ stopErr' = e
    /\ runErr' = e
    /\ UNCHANGED <<fileVars, waitOpt, waitFn, startCalls, waitEntered, waitReturned,
                   notified, sigChan, startErr, nruns>>

\* The process is sent SIGTERM or an interrupt.  With a channel registered
\* the signal is put in it, or dropped when it is full; with none, the
\* signal ends the process.
Signal ==
    /\ pc # "killed"
    /\ IF notified
       THEN /\ sigChan' = IF sigChan < sigChanCap THEN sigChan + 1 ELSE sigChan
            /\ pc' = pc
       ELSE /\ pc' = "killed"
            /\ sigChan' = sigChan
    /\ UNCHANGED <<fileVars, waitOpt, waitFn, startCalls, stopCalls, waitEntered,
                   waitReturned, notified, startErr, stopErr, runErr, nruns>>

InitSpecRun == InitFile({<<>>}, {"absent"}) /\ InitRun /\ NoArguments

NextRun ==
    \/ \E e \in StartResults : RunStart(e)
    \/ RunEnterWait
    \/ RunWaitReturn
    \/ \E e \in StopResults : RunStop(e)
    \/ Signal

SpecRun == InitSpecRun /\ [][NextRun]_vars

\* Run is the code of one goroutine that nothing holds back: a receive from a
\* channel that holds a signal completes, and the call of the stop callback
\* that follows is made.
SpecRunFair ==
    /\ SpecRun
    /\ WF_vars(RunWaitReturn)
    /\ WF_vars(\E e \in StopResults : RunStop(e))

(***************************************************************************)
(* Properties of configureSysStartup.                                      *)
(***************************************************************************)
\* The last call was a call of configureSysStartup that returned no error.
Added == call.op = "configureSysStartup" /\ call.err = nil

\* C1: idempotent registration.  When configureSysStartup is called for the
\* name n twice in sequence and returns no error, the recognized line of the
\* file lists n exactly once afterwards and the second call writes nothing.
C1_IdempotentRegistration ==
    [][(Added /\ Added' /\ ncalls' = ncalls + 1 /\ call'.name = call.name)
        => (/\ Count(RecognizedNames(rcConf'), call.name) = 1
            /\ ~call'.wrote
            /\ rcConf' = rcConf)]_vars

\* C2: order preservation.  When the recognized line lists the names L, c is
\* not among them and c is added, the recognized line lists L followed by c
\* afterwards, wherever the line is in the file and whether or not the file
\* ends with a newline.
C2_OrderPreservation ==
    (Added /\ HasRecognized(before.data)
           /\ ~InSlice(RecognizedNames(before.data), call.name))
        => RecognizedNames(rcConf) = Append(RecognizedNames(before.data), call.name)

\* C3: empty-file bootstrap.  Adding the name n when the file does not exist
\* or is empty leaves a file whose whole content is pref, n and one newline.
C3_EmptyFileBootstrap ==
    (Added /\ (~before.exists \/ before.data = <<>>))
        => rcExists /\ rcConf = pref \o call.name \o <<NL>>

C3_Witness ==
    /\ Added
    /\ ~before.exists
    /\ rcExists
    /\ rcConf = pref \o <<"a", "b", NL>>

\* C4: the startup list over sequences of calls.  When no call failed, the
\* recognized line lists the names that were there at first, then every name
\* added since, once, in the order of the first additions.
C4_StartupListInvariant ==
    (~faulted /\ call.op \in {"none", "configureSysStartup"})
        => RecognizedNames(rcConf) = initList \o added

(***************************************************************************)
(* Properties of the operations of the service.                            *)
(***************************************************************************)
\* errors.Is(err, target) for a target with no error wrapped in it.
Is(err, target) == err # nil /\ SubSeq(err, Len(err), Len(err)) = target

\* C5: install collision.  A call of Install for a service that was installed
\* with no error, and not uninstalled since, fails with the error of a script
\* that already exists and leaves the startup-configuration file and the
\* scripts as they were.
C5_InstallCollision ==
    (call.op = "Install" /\ call.name \in before.installed)
        => /\ ~call.panic
           /\ Is(call.err, NewError("script already exists"))
           /\ rcExists = before.exists
           /\ rcConf = before.data
           /\ script = before.script

C5_Witness ==
    /\ call.op = "Install"
    /\ call.name \in before.installed
    /\ call.err # nil
    /\ rcConf = before.data

\* C6: the postcondition of Install.  When Install returns no error, the
\* script of the service exists with the permission bits 0755 and the
\* recognized line of the startup-configuration file lists the service name.
C6_InstallPostcondition ==
    (call.op = "Install" /\ ~call.panic /\ call.err = nil)
        => /\ script[call.name].exists
           /\ script[call.name].perm = 493
           /\ rcExists
           /\ InSlice(RecognizedNames(rcConf), call.name)

\* C7: the translation of Status.  When check was run, Status returns running
\* and no error exactly when the output is the name followed by "(ok)" and a
\* newline, stopped and no error exactly when it is the name followed by
\* "(failed)" and a newline, and unknown with the error of a service that is
\* not installed for any other output.
C7_StatusTranslation ==
    (call.op = "Status" /\ call.cmdErr = nil)
        => LET ok     == call.out = call.name \o <<"(", "o", "k", ")", "\n">>
               failed == call.out = call.name \o <<"(", "f", "a", "i", "l", "e", "d", ")", "\n">>
           IN  /\ call.cmds = <<"check">>
               /\ (call.status = "running" /\ call.err = nil) <=> ok
               /\ (call.status = "stopped" /\ call.err = nil) <=> failed
               /\ (~ok /\ ~failed)
                    => call.status = "unknown" /\ Is(call.err, ErrNotInstalled)

C7_Witness ==
    /\ call.op = "Status"
    /\ call.cmdErr = nil
    /\ call.name = <<"a", "b">>
    /\ call.out = <<"a", "b", "(", "f", "a", "i", "l", "e", "d", ")", "\n">>
    /\ call.status = "stopped"

\* C8: the short circuit of Restart.  Restart sends stop, then start; when
\* Stop fails, start is never sent and Restart returns the error of Stop as
\* it is.
C8_RestartShortCircuit ==
    call.op = "Restart"
        => /\ call.stopErr = annotate("stopping", call.name, call.cmdErr)
           /\ call.stopErr # nil
                => call.err = call.stopErr /\ ~InSlice(call.cmds, "start")
           /\ call.stopErr = nil => call.cmds = <<"stop", "start">>
           /\ InSlice(call.cmds, "start") => call.cmds = <<"stop", "start">>

C8_Witness ==
    /\ call.op = "Restart"
    /\ call.stopErr # nil
    /\ call.cmds = <<"stop">>
    /\ call.err = call.stopErr

(***************************************************************************)
(* Properties of Run.                                                      *)
(***************************************************************************)
\* C9: Run blocks until signaled.  When the start callback succeeded, Run has
\* not returned before the wait function, the one of the RunWait option or
\* runWait, returned; the stop callback is called once at most, only after
\* the wait function returned, and once when Run has returned, with Run
\* returning what it returned.
C9_RunBlocksUntilSignaled ==
    startErr = nil
        => /\ stopCalls <= 1
           /\ stopCalls = 1 => waitEntered /\ waitReturned
           /\ waitEntered => waitFn = (IF waitOpt = "func" THEN "RunWait" ELSE "runWait")
           /\ pc = "returned"
                => waitReturned /\ stopCalls = 1 /\ startCalls = 1 /\ runErr = stopErr

C9_Witness ==
    /\ pc = "returned"
    /\ startErr = nil
    /\ waitFn = "runWait"
    /\ waitReturned
    /\ stopCalls = 1
    /\ runErr = NewError("stop failed")

\* C10: Run with a start callback that fails.  Run returns the error of the
\* start callback at once: the wait function is not entered and the stop
\* callback is not called.
C10_RunStartFails ==
    startErr # nil
        => /\ pc \in {"returned", "killed"}
           /\ runErr = startErr
           /\ ~waitEntered
           /\ ~waitReturned
           /\ stopCalls = 0

C10_Witness ==
    /\ pc = "returned"
    /\ startErr = NewError("start failed")
    /\ runErr = startErr
    /\ nruns = 2

(***************************************************************************)
(* More properties of the operations of the service.                       *)
(***************************************************************************)
\* C11: the frame of Uninstall.  Uninstall leaves the startup-configuration
\* file byte for byte as it was, and when it returns no error the script of
\* the service, which was there, is removed and no other script is touched;
\* a name the recognized line listed is still listed.
C11_UninstallFrame ==
    call.op = "Uninstall"
        => /\ rcExists = before.exists
           /\ rcConf = before.data
           /\ \A n \in Services \ {call.name} : script[n] = before.script[n]
           /\ call.err = nil
                => before.script[call.name].exists /\ ~script[call.name].exists
           /\ call.err # nil => script = before.script

C11_Witness ==
    /\ call.op = "Uninstall"
    /\ call.err = nil
    /\ call.name = <<"a">>
    /\ before.script[call.name].exists
    /\ ~script[call.name].exists
    /\ InSlice(RecognizedNames(rcConf), call.name)

\* The operations that need the path of the script.
ScriptOps == {"Install", "Uninstall", "Start", "Stop", "Restart", "Status"}

\* C12: user services are rejected.  With the UserService option true, every
\* operation that needs the path of the script fails with the error of user
\* services, spawns nothing and leaves the startup-configuration file and the
\* scripts as they were; with the option missing or not a boolean the path is
\* the name of the service in /etc/rc.d.
C12_UserScopedRejection ==
    /\ (userService = "true" /\ call.op \in ScriptOps)
          => /\ ~call.panic
             /\ Is(call.err, errNoUserServiceRunCom)
             /\ call.cmds = <<>>
             /\ rcExists = before.exists
             /\ rcConf = before.data
             /\ script = before.script
    /\ userService \in {"absent", "string"}
          => \A n \in Services :
                scriptPath(n, userService) = [cp |-> <<"/etc/rc.d">> \o n, err |-> nil]

C12_Witness ==
    /\ userService = "true"
    /\ call.op = "Restart"
    /\ Is(call.err, errNoUserServiceRunCom)
    /\ call.cmds = <<>>

\* C13: Start and Stop report the failure of the command.  When the script
\* was called with start (or stop), the operation returns no error exactly
\* when the script ran and exited with status zero, and the error it returns
\* is wrapped with the action, the variant and the name of the service.
C13_StartStopReportFailure ==
    (call.op \in {"Start", "Stop"} /\ call.cmds # <<>>)
        => /\ call.err = nil <=> (call.cmdErr = nil /\ call.code = 0)
           /\ call.err # nil
                => call.err[1] = Layer(IF call.op = "Start" THEN "starting" ELSE "stopping",
                                       sysVersion, call.name)

\* An error whose outermost layer is the one annotate adds for the service of
\* the name: an action, the variant and the name, around the error wrapped.
Annotated(err, name) ==
    /\ Len(err) >= 2
    /\ err[1].msg # ""
    /\ err[1].sys = sysVersion
    /\ err[1].name = name

\* C14: the annotation of errors.  Every error a public operation returns,
\* Run included, has the layer of annotate, with the action, the variant and
\* the name of the service, around the error that failed first.
C14_ErrorAnnotation ==
    /\ (call.op \in ScriptOps /\ call.err # nil) => Annotated(call.err, call.name)
    /\ (pc = "returned" /\ runErr # nil) => \E n \in Services : Annotated(runErr, n)

\* C15: failures are values.  No call of an operation panics, whatever the
\* RunComScript option holds.
C15_NeverPanics ==
    call.op # "none" => ~call.panic

\* C16: Install is not atomic.  When configureSysStartup fails after
\* writeScript wrote the script, Install returns an error and the script
\* stays where it is until an Uninstall removes it; meanwhile every Install
\* for the service fails with the error of a script that already exists and
\* changes nothing.
C16_InstallNotAtomic ==
    /\ \A n \in stranded : script[n].exists
    /\ (call.op = "Install" /\ call.name \in stranded \ before.stranded)
          => /\ call.err # nil
             /\ ~before.script[call.name].exists
             /\ script[call.name].exists
    /\ (call.op = "Install" /\ call.name \in before.stranded)
          => /\ Is(call.err, NewError("script already exists"))
             /\ script = before.script
             /\ rcConf = before.data
    /\ (call.op = "Uninstall" /\ call.name \in before.stranded /\ call.err = nil)
          => ~script[call.name].exists /\ call.name \notin stranded

C16_Witness ==
    /\ call.op = "Install"
    /\ call.name \in before.stranded
    /\ Is(call.err, NewError("script already exists"))
    /\ script[call.name].exists

(***************************************************************************)
(* More properties of configureSysStartup.                                 *)
(***************************************************************************)
\* The position of the recognized line among the lines, 0 when there is none.
RECURSIVE FirstRecognizedIdx(_, _)
FirstRecognizedIdx(lines, i) ==
    IF i > Len(lines) THEN 0
    ELSE IF HasPrefix(TrimSpace(lines[i]), pref) THEN i
    ELSE FirstRecognizedIdx(lines, i + 1)

\* Whether a line of the file is not blank.
HasNonBlank(data) ==
    \E i \in 1..Len(ScanLines(data)) : TrimSpace(ScanLines(data)[i]) # <<>>

\* C17: add leaves the rest of the file alone.  A call that adds a name
\* changes the recognized line at most, or appends after the lines of a file
\* that has none: every other line is what it was before the call.
C17_AddLeavesRestAlone ==
    Added
        => LET bl == ScanLines(before.data)
               al == ScanLines(rcConf)
               k  == FirstRecognizedIdx(bl, 1)
           IN  /\ Len(al) >= Len(bl)
               /\ k > 0 => Len(al) = Len(bl)
               /\ \A i \in 1..Len(bl) : i # k => al[i] = bl[i]

\* C18: no recognized line.  When the file has a line that is not blank and
\* no line that, trimmed, starts with pref (a line that has pref further on,
\* such as a commented-out one, is not such a line), add leaves the file as
\* it was, followed by a newline, pref, the name and a newline.
C18_NoRecognizedLine ==
    (Added /\ before.exists /\ HasNonBlank(before.data) /\ ~HasRecognized(before.data))
        => rcConf = before.data \o <<NL>> \o pref \o call.name \o <<NL>>

C18_Witness ==
    /\ Added
    /\ before.data = <<"#">> \o pref \o <<"a", NL>>
    /\ call.name = <<"b">>
    /\ rcConf = <<"#">> \o pref \o <<"a", NL, NL>> \o pref \o <<"b", NL>>

\* C19: the guard of the empty list.  When the recognized line is pref and
\* nothing else, is the last line of the file and ends with a newline, adding
\* the name n makes that line pref followed by n, with no space in between,
\* and changes nothing else.
C19_EmptyListGuard ==
    LET bl == ScanLines(before.data)
    IN  (/\ Added
         /\ before.exists
         /\ Len(bl) >= 1
         /\ bl[Len(bl)] = pref
         /\ FirstRecognizedIdx(bl, 1) = Len(bl)
         /\ before.data[Len(before.data)] = NL)
            => /\ rcConf = SubSeq(before.data, 1, Len(before.data) - 1)
                              \o call.name \o <<NL>>
               /\ RecognizedLine(rcConf) = pref \o call.name

C19_Witness ==
    /\ Added
    /\ before.data = <<"x", NL>> \o pref \o <<NL>>
    /\ call.name = <<"a">>
    /\ rcConf = <<"x", NL>> \o pref \o <<"a", NL>>

(***************************************************************************)
(* More properties of Run.                                                 *)
(***************************************************************************)
\* C20: the liveness of the default wait.  With no RunWait option Run waits
\* in runWait; the stop callback is called only after runWait returned, which
\* it does only with a signal delivered to its channel; once a signal is in
\* the channel of the runWait that waits, Run calls the stop callback and
\* returns; the signals that follow cause no second call of it.
C20_DefaultWaitLiveness ==
    /\ []((waitOpt = "absent" /\ waitEntered) => waitFn = "runWait")
    /\ [](waitFn = "runWait" => stopCalls <= 1)
    /\ [][(waitFn = "runWait" /\ stopCalls' > stopCalls) => waitReturned]_vars
    /\ [][(waitFn = "runWait" /\ ~waitReturned /\ waitReturned')
            => (notified /\ sigChan > 0)]_vars
    /\ (pc = "waiting" /\ waitFn = "runWait" /\ sigChan > 0)
          ~> (pc = "returned" /\ stopCalls = 1)

C20_Witness ==
    /\ pc = "returned"
    /\ waitOpt = "absent"
    /\ waitFn = "runWait"
    /\ stopCalls = 1
    /\ sigChan >= 1
    /\ runErr = nil

(***************************************************************************)
(* Rendering failures of Install.                                          *)
(***************************************************************************)
\* The rendering of the script failed in the last call: the template did not
\* parse, or its execution returned an error.
RenderingFailed ==
    /\ call.op = "Install"
    /\ call.panic \/ Is(call.err, NewError("execute"))

\* C21: no partial rendering.  When the rendering of the script fails during
\* Install, Install returns an error and leaves no script, complete or
\* partial, so that a later Install is not stopped by a script that exists.
C21_NoPartialRendering ==
    RenderingFailed
        => /\ ~call.panic
           /\ call.err # nil
           /\ ~script[call.name].exists

(***************************************************************************)
(* SpecReinstall: Install, Uninstall and Install again of one service, with *)
(* no fault, on any initial startup-configuration file.                    *)
(***************************************************************************)
InitReinstall ==
    InitFile(InitFiles(MaxLines), UserServiceOpts \ {"true"}) /\ RunIdle /\ NoArguments

FirstInstall ==
    /\ call.op = "none"
    /\ \E n \in Services : DoInstall(n, "absent", "none")

ThenUninstall ==
    /\ call.op = "Install"
    /\ ncalls = 1
    /\ DoUninstall(call.name, "none")

SecondInstall ==
    /\ call.op = "Uninstall"
    /\ DoInstall(call.name, "absent", "none")

NextReinstall == FirstInstall \/ ThenUninstall \/ SecondInstall

SpecReinstall == InitReinstall /\ [][NextReinstall]_vars

\* C22: Install, Uninstall, Install.  Each of the three calls returns no
\* error, and after the third the script exists and the recognized line of
\* the startup-configuration file lists the name of the service exactly
\* once.
C22_InstallUninstallInstall ==
    /\ call.op # "none" => call.err = nil /\ ~call.panic
    /\ (call.op = "Install" /\ ncalls = 2)
          => /\ script[call.name].exists
             /\ rcExists
             /\ Count(RecognizedNames(rcConf), call.name) = 1

(***************************************************************************)
(* SpecTemplate: the rendering of daemon_flags by the built-in template,   *)
(* for any Arguments.                                                      *)
(***************************************************************************)
QUOTE == "\""

\* The function args of the template: the arguments joined with one space,
\* between two double quotes.
args(sl) == <<QUOTE>> \o Join(sl, <<SP>>) \o <<QUOTE>>

\* The characters of an argument: a letter, a space and a double quote.
ArgChars == {"a", SP, QUOTE}

\* The arguments of up to MaxArgLen characters and the lists of up to
\* MaxArgs of them.
ArgStrings == UNION {[1..k -> ArgChars] : k \in 0..MaxArgLen}
ArgLists == UNION {[1..k -> ArgStrings] : k \in 0..MaxArgs}

\* How sh reads the text after "daemon_flags=" on the line of the script: a
\* double quote opens or closes a quoted part and is removed, a space outside
\* the quotes ends the word, and the end of the line inside the quotes leaves
\* them open.  The result is the value assigned, what follows the word on the
\* line, and whether the quotes were closed.
RECURSIVE ShellWord(_, _, _, _)
ShellWord(str, i, inQuotes, value) ==
    IF i > Len(str)
    THEN [value |-> value, rest |-> <<>>, closed |-> ~inQuotes]
    ELSE IF str[i] = QUOTE THEN ShellWord(str, i + 1, ~inQuotes, value)
    ELSE IF str[i] = SP /\ ~inQuotes
    THEN [value |-> value, rest |-> SubSeq(str, i + 1, Len(str)), closed |-> TRUE]
    ELSE ShellWord(str, i + 1, inQuotes, Append(value, str[i]))

InitTemplate ==
    /\ InitFile({<<>>}, {"absent"})
    /\ RunIdle
    /\ arguments \in ArgLists
    /\ daemonFlags = <<>>

\* The template is executed: {{ .Arguments | args }}.
RenderDaemonFlags ==
    /\ daemonFlags = <<>>
    /\ daemonFlags' = args(arguments)
    /\ UNCHANGED <<userService, rcExists, rcConf, script, call, before, initList, added,
                   faulted, installed, stranded, ncalls, arguments, runVars>>

NextTemplate == RenderDaemonFlags

SpecTemplate == InitTemplate /\ [][NextTemplate]_vars

\* C23: the rendering of the arguments.  For every list of arguments, with
\* quotes and spaces in them or not, the text rendered after daemon_flags= is
\* read by the shell as one word, and the value of the word is the arguments
\* joined with single spaces.
C23_ArgumentRendering ==
    daemonFlags # <<>>
        => LET w == ShellWord(daemonFlags, 1, FALSE, <<>>)
           IN  /\ w.closed
               /\ w.rest = <<>>
               /\ w.value = Join(arguments, <<SP>>)

====
